---- MODULE Spec2Model ----
(***************************************************************************)
(* Huffman compressor / decompressor of src/huffman.py.                    *)
(*                                                                         *)
(* Values.  A HuffmanNode is the tuple <<symbol, left, right, number>>;    *)
(* Python's None is NoSym / NoNumber for the two integer fields and the    *)
(* empty tuple for an absent child.  A str of bits is a sequence over      *)
(* {0, 1}; a bytes object is a sequence over 0..255; a dict is a function  *)
(* whose DOMAIN is its key set (freq_dict, whose iteration order the code  *)
(* relies on, is a sequence of <<symbol, count>> pairs in insertion        *)
(* order).  An entry of huffman_tree's working list is the record          *)
(* [node, key, w]: node tells whether key is a HuffmanNode or a symbol.    *)
(* A raised exception is recorded in err and ends the run in pc = "error". *)
(***************************************************************************)
EXTENDS Integers, Sequences, FiniteSets, TLC

VARIABLES pc, err, freq_dict, freq, tree, codes, buf, rebuilt, rebuilt_po,
          text, y, byte, pos, packed, decoded, container, intact

vars == <<pc, err, freq_dict, freq, tree, codes, buf, rebuilt, rebuilt_po,
          text, y, byte, pos, packed, decoded, container, intact>>

treeVars == <<freq_dict, freq, tree, codes, buf, rebuilt, rebuilt_po>>
packVars == <<text, y, byte, pos, packed, decoded>>
fileVars == <<container, intact>>

----------------------------------------------------------------------------
(* Bounds of the model *)

MaxSyms == 5
MaxFreq == 2

(* Python None in an integer field *)
NoSym == 0 - 1
NoNumber == 0 - 1
None == <<>>

NoErr == "none"

----------------------------------------------------------------------------
(* Generic helpers *)

Min(a, b) == IF a < b THEN a ELSE b

RECURSIVE Pow2(_)
Pow2(n) == IF n = 0 THEN 1 ELSE 2 * Pow2(n - 1)

RECURSIVE SumTo(_, _)
SumTo(f, n) == IF n = 0 THEN 0 ELSE f[n] + SumTo(f, n - 1)

(* Python s[a:b] for 0 <= a, 0 <= b (indices clamp to the length) *)
Slice(s, a, b) ==
    LET hi == Min(b, Len(s))
    IN IF a >= hi THEN <<>> ELSE SubSeq(s, a + 1, hi)

(* s with the element at position i removed *)
RemoveAt(s, i) == SubSeq(s, 1, i - 1) \o SubSeq(s, i + 1, Len(s))

EmptyDict == [k \in {} |-> <<>>]

(* dict.update(e) applied to d *)
DictUpdate(d, e) ==
    [k \in (DOMAIN d) \cup (DOMAIN e) |-> IF k \in DOMAIN e THEN e[k] ELSE d[k]]

(* d[k] = v *)
DictPut(d, k, v) == [j \in (DOMAIN d) \cup {k} |-> IF j = k THEN v ELSE d[j]]

----------------------------------------------------------------------------
(* nodes.HuffmanNode *)

HuffmanNode(symbol, left, right) == <<symbol, left, right, NoNumber>>

Leaf(symbol) == HuffmanNode(symbol, None, None)

IsNone(t) == Len(t) = 0

is_leaf(t) == IsNone(t[2]) /\ IsNone(t[3])

(* HuffmanNode.__eq__: symbol and both subtrees, the number is ignored *)
RECURSIVE NodeEq(_, _)
NodeEq(a, b) ==
    IF IsNone(a) \/ IsNone(b) THEN IsNone(a) /\ IsNone(b)
    ELSE /\ a[1] = b[1]
         /\ NodeEq(a[2], b[2])
         /\ NodeEq(a[3], b[3])

----------------------------------------------------------------------------
(* Helper functions for manipulating bytes *)

get_bit(b, bit_num) == (b \div Pow2(bit_num)) % 2

byte_to_bits(b) == [k \in 1..8 |-> get_bit(b, 8 - k)]

(* int(bits[pos]) << (7 - pos) raises ValueError once pos > 7 *)
bits_to_byte_raises(bits) == Len(bits) > 8

bits_to_byte(bits) ==
    SumTo([k \in 1..Len(bits) |-> bits[k] * Pow2(8 - k)], Len(bits))

----------------------------------------------------------------------------
(* Functions for compression *)

RECURSIVE make_freq_dict(_)
make_freq_dict(t) ==
    IF Len(t) = 0 THEN <<>>
    ELSE LET d == make_freq_dict(SubSeq(t, 1, Len(t) - 1))
             b == t[Len(t)]
         IN IF \E k \in 1..Len(d) : d[k][1] = b
            THEN [k \in 1..Len(d) |->
                    IF d[k][1] = b THEN <<b, d[k][2] + 1>> ELSE d[k]]
            ELSE Append(d, <<b, 1>>)

(* Equality of two (key, value) tuples of the working list *)
EntryEq(a, b) ==
    /\ a.node = b.node
    /\ IF a.node THEN NodeEq(a.key, b.key) ELSE a.key = b.key
    /\ a.w = b.w

(* take_min with the comparison turned round *)
RECURSIVE ScanMin_Largest(_, _, _)
ScanMin_Largest(lst, k, best) ==
    IF k > Len(lst) THEN best
    ELSE ScanMin_Largest(lst, k + 1, IF lst[k].w > lst[best].w THEN k ELSE best)

(* The for loop of take_min: index of the entry it settles on *)
RECURSIVE ScanMin(_, _, _)
ScanMin(lst, k, best) ==
    IF k > Len(lst) THEN best
    ELSE ScanMin(lst, k + 1, IF lst[k].w < lst[best].w THEN k ELSE best)

(* list.remove: the first position holding an equal tuple *)
FirstEqual(lst, e) ==
    CHOOSE k \in 1..Len(lst) :
        /\ EntryEq(lst[k], e)
        /\ \A j \in 1..(k - 1) : ~EntryEq(lst[j], e)

take_min_raises(lst) == Len(lst) = 0

(* <<the tuple returned, lst after the removal>> *)
take_min(lst) ==
    LET e == lst[ScanMin(lst, 1, 1)]
    IN <<e, RemoveAt(lst, FirstEqual(lst, e))>>

AsNode(e) == IF e.node THEN e.key ELSE Leaf(e.key)

(* One iteration of the while loop of huffman_tree; raises as take_min does *)
merge_raises(lst) ==
    \/ take_min_raises(lst)
    \/ take_min_raises(take_min(lst)[2])

merge(lst) ==
    LET a == take_min(lst)
        b == take_min(a[2])
        root == HuffmanNode(NoSym, AsNode(a[1]), AsNode(b[1]))
    IN Append(b[2], [node |-> TRUE, key |-> root, w |-> a[1].w + b[1].w])

items(fd) == [k \in 1..Len(fd) |-> [node |-> FALSE, key |-> fd[k][1], w |-> fd[k][2]]]

RECURSIVE merge_all_raises(_)
merge_all_raises(lst) ==
    IF Len(lst) = 1 THEN FALSE
    ELSE merge_raises(lst) \/ merge_all_raises(merge(lst))

RECURSIVE merge_all(_)
merge_all(lst) == IF Len(lst) = 1 THEN lst[1].key ELSE merge_all(merge(lst))

huffman_tree_raises(fd) == Len(fd) # 1 /\ merge_all_raises(items(fd))

huffman_tree(fd) ==
    IF Len(fd) = 1 THEN HuffmanNode(NoSym, Leaf(fd[1][1]), None)
    ELSE merge_all(items(fd))

RECURSIVE get_codes_raises(_)
get_codes_raises(t) ==
    IF IsNone(t) THEN FALSE
    ELSE \/ IsNone(t[2])
         \/ ~is_leaf(t[2]) /\ get_codes_raises(t[2])
         \/ IsNone(t[3])
         \/ ~is_leaf(t[3]) /\ get_codes_raises(t[3])

(* the bit put after the code instead of before it *)
Prefixed_After(bit, d) == [k \in DOMAIN d |-> d[k] \o <<bit>>]

(* "0" + code or "1" + code for every key of d *)
Prefixed(bit, d) == [k \in DOMAIN d |-> <<bit>> \o d[k]]

RECURSIVE get_codes(_)
get_codes(t) ==
    IF IsNone(t) THEN EmptyDict
    ELSE LET c1 == IF is_leaf(t[2])
                   THEN DictPut(EmptyDict, t[2][1], <<0>>)
                   ELSE DictUpdate(EmptyDict, Prefixed(0, get_codes(t[2])))
         IN IF is_leaf(t[3])
            THEN DictPut(c1, t[3][1], <<1>>)
            ELSE DictUpdate(c1, Prefixed(1, get_codes(t[3])))

RECURSIVE numbering_raises(_)
numbering_raises(t) ==
    \/ IsNone(t)
    \/ ~is_leaf(t) /\ (numbering_raises(t[2]) \/ numbering_raises(t[3]))

(* <<the tree with its internal nodes numbered from n, the next number>> *)
RECURSIVE numbering(_, _)
numbering(t, n) ==
    IF is_leaf(t) THEN <<t, n>>
    ELSE LET l == numbering(t[2], n)
             r == numbering(t[3], l[2])
         IN <<(<<t[1], l[1], r[1], r[2]>>), r[2] + 1>>

number_nodes_raises(t) == numbering_raises(t)

number_nodes(t) == numbering(t, 0)[1]

(* bytes(lst) raises ValueError on an element outside 0..255 *)
IsByte(v) == v >= 0 /\ v <= 255

RECURSIVE tree_to_bytes_raises(_)
tree_to_bytes_raises(t) ==
    \/ IsNone(t[2])
    \/ ~is_leaf(t[2]) /\ tree_to_bytes_raises(t[2])
    \/ IsNone(t[3])
    \/ ~is_leaf(t[3]) /\ tree_to_bytes_raises(t[3])
    \/ ~IsByte(IF is_leaf(t[2]) THEN t[2][1] ELSE t[2][4])
    \/ ~IsByte(IF is_leaf(t[3]) THEN t[3][1] ELSE t[3][4])

(* the right subtree's records written before the left subtree's *)
RECURSIVE tree_to_bytes_RightFirst(_)
tree_to_bytes_RightFirst(t) ==
    LET l == IF ~is_leaf(t[2]) THEN tree_to_bytes_RightFirst(t[2]) ELSE <<>>
        r == IF ~is_leaf(t[3]) THEN tree_to_bytes_RightFirst(t[3]) ELSE <<>>
        own_l == IF is_leaf(t[2]) THEN <<0, t[2][1]>> ELSE <<1, t[2][4]>>
        own_r == IF is_leaf(t[3]) THEN <<0, t[3][1]>> ELSE <<1, t[3][4]>>
    IN r \o l \o own_l \o own_r

RECURSIVE tree_to_bytes(_)
tree_to_bytes(t) ==
    LET l == IF ~is_leaf(t[2]) THEN tree_to_bytes(t[2]) ELSE <<>>
        r == IF ~is_leaf(t[3]) THEN tree_to_bytes(t[3]) ELSE <<>>
        own_l == IF is_leaf(t[2]) THEN <<0, t[2][1]>> ELSE <<1, t[2][4]>>
        own_r == IF is_leaf(t[3]) THEN <<0, t[3][1]>> ELSE <<1, t[3][4]>>
    IN l \o r \o own_l \o own_r

num_nodes_to_bytes_raises(t) == ~IsByte(t[4] + 1)

num_nodes_to_bytes(t) == <<t[4] + 1>>

(* size.to_bytes(4, "little") raises OverflowError from 2^32 on *)
size_to_bytes_raises(n) == n \div Pow2(24) >= 256

size_to_bytes(n) == [k \in 1..4 |-> (n \div Pow2(8 * (k - 1))) % 256]

(* The for loop of generate_compressed over the first n bytes of t:        *)
(* the record [y, byte, fail]; fail is the KeyError of codes[i]            *)
RECURSIVE pack_loop(_, _, _)
pack_loop(t, cs, n) ==
    IF n = 0 THEN [y |-> <<>>, byte |-> <<>>, fail |-> FALSE]
    ELSE LET p == pack_loop(t, cs, n - 1)
         IN IF p.fail \/ t[n] \notin DOMAIN cs
            THEN [p EXCEPT !.fail = TRUE]
            ELSE IF Len(p.byte) + Len(cs[t[n]]) > 8
                 THEN [y |-> Append(p.y, bits_to_byte(Slice(p.byte \o cs[t[n]], 0, 8))),
                       byte |-> Slice(p.byte \o cs[t[n]], 8, Len(p.byte) + Len(cs[t[n]])),
                       fail |-> FALSE]
                 ELSE [p EXCEPT !.byte = p.byte \o cs[t[n]]]

generate_compressed_raises(t, cs) ==
    LET p == pack_loop(t, cs, Len(t))
    IN p.fail \/ bits_to_byte_raises(p.byte)

generate_compressed(t, cs) ==
    LET p == pack_loop(t, cs, Len(t))
    IN Append(p.y, bits_to_byte(p.byte))

----------------------------------------------------------------------------
(* Functions for decompression *)

ReadNode(l_type, l_data, r_type, r_data) ==
    [l_type |-> l_type, l_data |-> l_data, r_type |-> r_type, r_data |-> r_data]

(* buf[i+1] .. buf[i+3] raise IndexError when the last group is short *)
bytes_to_nodes_raises(b) == Len(b) % 4 # 0

bytes_to_nodes(b) ==
    [k \in 1..(Len(b) \div 4) |->
        ReadNode(b[4 * k - 3], b[4 * k - 2], b[4 * k - 1], b[4 * k])]

(* node_lst[i] of Python: a negative index counts from the end *)
PyIndexRaises(lst, i) == i >= Len(lst) \/ i < 0 - Len(lst)

PyIndex(lst, i) == IF i >= 0 THEN lst[i + 1] ELSE lst[Len(lst) + i + 1]

(* depth bounds the recursion: Python raises RecursionError on a cycle *)
RECURSIVE general_raises(_, _, _)
general_raises(node_lst, root_index, depth) ==
    \/ depth = 0
    \/ PyIndexRaises(node_lst, root_index)
    \/ LET x == PyIndex(node_lst, root_index)
       IN \/ x.l_type # 0 /\ general_raises(node_lst, x.l_data, depth - 1)
          \/ x.r_type # 0 /\ general_raises(node_lst, x.r_data, depth - 1)

generate_tree_general_raises(node_lst, root_index) ==
    general_raises(node_lst, root_index, Len(node_lst) + 1)

RECURSIVE generate_tree_general(_, _)
generate_tree_general(node_lst, root_index) ==
    LET x == PyIndex(node_lst, root_index)
        left == IF x.l_type # 0 THEN generate_tree_general(node_lst, x.l_data)
                ELSE Leaf(x.l_data)
        right == IF x.r_type # 0 THEN generate_tree_general(node_lst, x.r_data)
                 ELSE Leaf(x.r_data)
    IN HuffmanNode(NoSym, left, right)

(* The for loop of generate_tree_postorder over the first n records:       *)
(* the record [q, fail]; fail is the IndexError of q.pop(0)                *)
RECURSIVE postorder_loop(_, _)
postorder_loop(node_lst, n) ==
    IF n = 0 THEN [q |-> <<>>, fail |-> FALSE]
    ELSE LET p == postorder_loop(node_lst, n - 1)
             x == node_lst[n]
             needL == IF x.l_type = 1 THEN 1 ELSE 0
             needR == IF x.r_type = 1 THEN 1 ELSE 0
         IN IF p.fail \/ Len(p.q) < needL + needR
            THEN [p EXCEPT !.fail = TRUE]
            ELSE LET left == IF x.l_type = 1 THEN p.q[1] ELSE Leaf(x.l_data)
                     q1 == IF x.l_type = 1 THEN Tail(p.q) ELSE p.q
                     right == IF x.r_type = 1 THEN q1[1] ELSE Leaf(x.r_data)
                     q2 == IF x.r_type = 1 THEN Tail(q1) ELSE q1
                 IN [q |-> Append(q2, HuffmanNode(NoSym, left, right)),
                     fail |-> FALSE]

generate_tree_postorder_raises(node_lst, root_index) ==
    LET p == postorder_loop(node_lst, Len(node_lst))
    IN p.fail \/ Len(p.q) = 0

generate_tree_postorder(node_lst, root_index) ==
    postorder_loop(node_lst, Len(node_lst)).q[1]

(* value in reverse / reverse[value], reverse being get_codes inverted *)
InReverse(cs, c) == \E k \in DOMAIN cs : cs[k] = c

Reverse(cs, c) == CHOOSE k \in DOMAIN cs : cs[k] = c

(* The innermost while of generate_uncompressed: <<counter, short>> *)
RECURSIVE scan_code(_, _, _, _)
scan_code(cs, code, start, counter) ==
    IF InReverse(cs, Slice(code, start, counter)) THEN <<counter, FALSE>>
    ELSE IF counter + 1 > Len(code) THEN <<counter + 1, TRUE>>
         ELSE scan_code(cs, code, start, counter + 1)

(* The middle while: decode symbols until the bits run short or size is met *)
RECURSIVE decode_symbols(_, _, _)
decode_symbols(cs, n, u) ==
    IF Len(u.decode) >= n THEN u
    ELSE LET s == scan_code(cs, u.code, u.start, u.counter)
         IN IF s[2] THEN [u EXCEPT !.counter = s[1]]
            ELSE decode_symbols(cs, n,
                    [u EXCEPT !.decode = Append(u.decode,
                                  Reverse(cs, Slice(u.code, u.start, s[1]))),
                              !.start = s[1],
                              !.counter = s[1]])

(* The outer while: one byte of text per iteration *)
RECURSIVE decode_bytes(_, _, _, _)
decode_bytes(cs, t, n, u) ==
    IF Len(u.decode) < n /\ u.index < Len(t)
    THEN decode_bytes(cs, t, n,
            LET v == decode_symbols(cs, n,
                        [u EXCEPT !.code = u.code \o byte_to_bits(t[u.index + 1])])
            IN [v EXCEPT !.index = v.index + 1])
    ELSE u

generate_uncompressed_raises(t) == get_codes_raises(t)

generate_uncompressed(tr, t, n) ==
    decode_bytes(get_codes(tr), t, n,
        [code |-> <<>>, decode |-> <<>>, index |-> 0, start |-> 0,
         counter |-> 1]).decode

RECURSIVE bytes_to_size(_)
bytes_to_size(b) ==
    IF Len(b) = 0 THEN 0
    ELSE b[1] + 256 * bytes_to_size(Tail(b))

(* total of avg_length is 0 only for an empty code table: ZeroDivisionError *)
avg_length_raises(tr, fd) == DOMAIN get_codes(tr) = {}

(* compress: the first exception raised, NoErr if none *)
compress_err(t) ==
    LET fd == make_freq_dict(t)
    IN IF huffman_tree_raises(fd) THEN "IndexError"
       ELSE LET tr == huffman_tree(fd)
            IN IF get_codes_raises(tr) \/ number_nodes_raises(tr)
               THEN "AttributeError"
               ELSE IF avg_length_raises(tr, fd) THEN "ZeroDivisionError"
               ELSE IF num_nodes_to_bytes_raises(number_nodes(tr))
                       \/ tree_to_bytes_raises(number_nodes(tr))
               THEN "ValueError"
               ELSE IF size_to_bytes_raises(Len(t)) THEN "OverflowError"
               ELSE IF generate_compressed_raises(t, get_codes(tr))
               THEN "ValueError"
               ELSE NoErr

(* compress: the bytes written to out_file *)
compress(t) ==
    LET tr == huffman_tree(make_freq_dict(t))
        cs == get_codes(tr)
        numbered == number_nodes(tr)
    IN num_nodes_to_bytes(numbered) \o tree_to_bytes(numbered)
         \o size_to_bytes(Len(t)) \o generate_compressed(t, cs)

(* uncompress: the first exception raised, NoErr if none *)
uncompress_err(c) ==
    IF Len(c) = 0 THEN "IndexError"
    ELSE LET num_nodes == c[1]
             b == Slice(c, 1, 1 + num_nodes * 4)
         IN IF bytes_to_nodes_raises(b) THEN "IndexError"
            ELSE IF generate_tree_general_raises(bytes_to_nodes(b), num_nodes - 1)
            THEN "IndexError"
            ELSE NoErr

(* uncompress: the bytes written to out_file *)
uncompress(c) ==
    LET num_nodes == c[1]
        node_lst == bytes_to_nodes(Slice(c, 1, 1 + num_nodes * 4))
        tr == generate_tree_general(node_lst, num_nodes - 1)
        n == bytes_to_size(Slice(c, 1 + num_nodes * 4, 5 + num_nodes * 4))
    IN generate_uncompressed(tr, Slice(c, 5 + num_nodes * 4, Len(c)), n)

----------------------------------------------------------------------------
(* The tree pipeline, one step of the code at a time:                      *)
(* huffman_tree (its loop one iteration per step), get_codes,              *)
(* number_nodes, tree_to_bytes and the two reconstructions.                *)

(* Frequency tables of up to MaxSyms symbols 0, 1, .. in insertion order *)
DictOf(n, w) == [k \in 1..n |-> <<k - 1, w[k]>>]

FreqDicts(lo, hi) ==
    UNION {{DictOf(n, w) : w \in [1..n -> 1..MaxFreq]} : n \in lo..hi}

(* The textbook weights 5, 9, 12, 13, 16, 45 on the symbols 'a' .. 'f' *)
TextbookDict ==
    <<(<<97, 5>>), (<<98, 9>>), (<<99, 12>>), (<<100, 13>>), (<<101, 16>>),
      (<<102, 45>>)>>

Raise(e) ==
    /\ pc' = "error"
    /\ err' = e

InitTree ==
    /\ freq_dict \in FreqDicts(0, MaxSyms) \cup {TextbookDict}
    /\ pc = "start"
    /\ err = NoErr
    /\ freq = <<>>
    /\ tree = None
    /\ codes = EmptyDict
    /\ buf = <<>>
    /\ rebuilt = None
    /\ rebuilt_po = None
    /\ text = <<>>
    /\ y = <<>>
    /\ byte = <<>>
    /\ pos = 0
    /\ packed = <<>>
    /\ decoded = <<>>
    /\ container = <<>>
    /\ intact = TRUE

(* huffman_tree up to the first test of the while loop *)
TreeStart ==
    /\ pc = "start"
    /\ freq' = items(freq_dict)
    /\ IF Len(freq_dict) = 1
       THEN /\ tree' = HuffmanNode(NoSym, Leaf(freq_dict[1][1]), None)
            /\ pc' = "built"
       ELSE /\ tree' = tree
            /\ pc' = "loop"
    /\ UNCHANGED <<err, freq_dict, codes, buf, rebuilt, rebuilt_po>>
    /\ UNCHANGED <<packVars, fileVars>>

(* One iteration of the while loop, and the return once one entry is left *)
TreeMerge ==
    /\ pc = "loop"
    /\ IF merge_raises(freq)
       THEN /\ Raise("IndexError")
            /\ UNCHANGED <<freq, tree>>
       ELSE /\ freq' = merge(freq)
            /\ err' = err
            /\ IF Len(freq') = 1
               THEN /\ tree' = freq'[1].key
                    /\ pc' = "built"
               ELSE /\ tree' = tree
                    /\ pc' = "loop"
    /\ UNCHANGED <<freq_dict, codes, buf, rebuilt, rebuilt_po>>
    /\ UNCHANGED <<packVars, fileVars>>

TreeCodes ==
    /\ pc = "built"
    /\ IF get_codes_raises(tree)
       THEN /\ Raise("AttributeError")
            /\ codes' = codes
       ELSE /\ codes' = get_codes(tree)
            /\ pc' = "coded"
            /\ err' = err
    /\ UNCHANGED <<freq_dict, freq, tree, buf, rebuilt, rebuilt_po>>
    /\ UNCHANGED <<packVars, fileVars>>

TreeNumber ==
    /\ pc = "coded"
    /\ IF number_nodes_raises(tree)
       THEN /\ Raise("AttributeError")
            /\ tree' = tree
       ELSE /\ tree' = number_nodes(tree)
            /\ pc' = "numbered"
            /\ err' = err
    /\ UNCHANGED <<freq_dict, freq, codes, buf, rebuilt, rebuilt_po>>
    /\ UNCHANGED <<packVars, fileVars>>

TreeSerialize ==
    /\ pc = "numbered"
    /\ IF tree_to_bytes_raises(tree)
       THEN /\ Raise("ValueError")
            /\ buf' = buf
       ELSE /\ buf' = tree_to_bytes(tree)
            /\ pc' = "serialized"
            /\ err' = err
    /\ UNCHANGED <<freq_dict, freq, tree, codes, rebuilt, rebuilt_po>>
    /\ UNCHANGED <<packVars, fileVars>>

TreeGeneral ==
    /\ pc = "serialized"
    /\ IF \/ bytes_to_nodes_raises(buf)
          \/ generate_tree_general_raises(bytes_to_nodes(buf), tree[4])
       THEN /\ Raise("IndexError")
            /\ rebuilt' = rebuilt
       ELSE /\ rebuilt' = generate_tree_general(bytes_to_nodes(buf), tree[4])
            /\ pc' = "general"
            /\ err' = err
    /\ UNCHANGED <<freq_dict, freq, tree, codes, buf, rebuilt_po>>
    /\ UNCHANGED <<packVars, fileVars>>

TreePostorder ==
    /\ pc = "general"
    /\ IF generate_tree_postorder_raises(bytes_to_nodes(buf), tree[4])
       THEN /\ Raise("IndexError")
            /\ rebuilt_po' = rebuilt_po
       ELSE /\ rebuilt_po' = generate_tree_postorder(bytes_to_nodes(buf), tree[4])
            /\ pc' = "done"
            /\ err' = err
    /\ UNCHANGED <<freq_dict, freq, tree, codes, buf, rebuilt>>
    /\ UNCHANGED <<packVars, fileVars>>

NextTree ==
    \/ TreeStart
    \/ TreeMerge
    \/ TreeCodes
    \/ TreeNumber
    \/ TreeSerialize
    \/ TreeGeneral
    \/ TreePostorder

SpecTree == InitTree /\ [][NextTree]_vars

----------------------------------------------------------------------------
(* Properties of the tree pipeline *)

Symbols(fd) == {fd[k][1] : k \in 1..Len(fd)}

(* Sum over the symbols of freq(s) * len(code(s)) *)
Cost(cs, fd) ==
    SumTo([k \in 1..Len(fd) |-> fd[k][2] * Len(cs[fd[k][1]])], Len(fd))

(* Code lengths some binary prefix code has (Kraft's inequality); no       *)
(* optimal code of n >= 2 symbols has a code longer than n - 1 bits        *)
KraftLengths(n) ==
    {l \in [1..n -> 1..(n - 1)] :
        SumTo([k \in 1..n |-> Pow2(n - 1 - l[k])], n) <= Pow2(n - 1)}

(* The largest table of InitTree *)
MaxTable == IF MaxSyms > Len(TextbookDict) THEN MaxSyms ELSE Len(TextbookDict)

KraftTable == [n \in 2..MaxTable |-> {l : l \in KraftLengths(n)}]

LengthCost(l, fd) == SumTo([k \in 1..Len(fd) |-> fd[k][2] * l[k]], Len(fd))

(* The least weighted length of any binary prefix code for the weights *)
OptCost(fd) ==
    LET costs == {LengthCost(l, fd) : l \in KraftTable[Len(fd)]}
    IN CHOOSE c \in costs : \A d \in costs : c <= d

(* new is old without the entries at i and j, plus one entry of their sum *)
MergedAt(old, new, i, j) ==
    LET rest == RemoveAt(RemoveAt(old, IF i > j THEN i ELSE j),
                         IF i > j THEN j ELSE i)
    IN /\ Len(new) = Len(old) - 1
       /\ \A k \in 1..Len(rest) : EntryEq(new[k], rest[k])
       /\ new[Len(new)].w = old[i].w + old[j].w

TwoLowestMerged(old, new) ==
    \E i, j \in 1..Len(old) :
        /\ i # j
        /\ \A k \in 1..Len(old) :
              k \notin {i, j} => old[k].w >= old[i].w /\ old[k].w >= old[j].w
        /\ MergedAt(old, new, i, j)

C2_Optimal ==
    (pc = "coded" /\ Len(freq_dict) >= 2)
        => Cost(codes, freq_dict) = OptCost(freq_dict)

(* C2: the tree huffman_tree returns for two or more symbols has the least *)
(* weighted code length of any binary prefix code for the same weights,    *)
(* and every iteration of its loop removes the two lowest-weight entries   *)
(* of the working list and appends one entry weighing their sum.           *)
C2_Theorem ==
    /\ []C2_Optimal
    /\ [][(pc = "loop" /\ pc' # "error") => TwoLowestMerged(freq, freq')]_vars

C2_Witness ==
    /\ pc = "coded"
    /\ freq_dict = TextbookDict
    /\ Cost(codes, freq_dict) = 224

IsPrefix(a, b) == Len(a) <= Len(b) /\ SubSeq(b, 1, Len(a)) = a

(* C3: for two or more symbols get_codes gives every symbol of the         *)
(* frequency table exactly one code, no code is empty, and no code is a    *)
(* prefix of the code of another symbol.                                   *)
C3_Theorem ==
    (pc = "coded" /\ Len(freq_dict) >= 2)
        => /\ DOMAIN codes = Symbols(freq_dict)
           /\ \A a \in DOMAIN codes : Len(codes[a]) >= 1
           /\ \A a, b \in DOMAIN codes :
                 a # b => ~IsPrefix(codes[a], codes[b])

C3_Witness ==
    /\ pc = "coded"
    /\ Len(freq_dict) >= 3
    /\ \E a, b \in DOMAIN codes : Len(codes[a]) < Len(codes[b])

(* The internal nodes of a tree *)
RECURSIVE Internals(_)
Internals(t) ==
    IF IsNone(t) \/ is_leaf(t) THEN {}
    ELSE {t} \cup Internals(t[2]) \cup Internals(t[3])

RecordOf(t) ==
    ReadNode(IF is_leaf(t[2]) THEN 0 ELSE 1,
             IF is_leaf(t[2]) THEN t[2][1] ELSE t[2][4],
             IF is_leaf(t[3]) THEN 0 ELSE 1,
             IF is_leaf(t[3]) THEN t[3][1] ELSE t[3][4])

(* C4: rebuilding by index from the serialized records of a numbered tree  *)
(* of two or more symbols gives a tree of the same shape with the same     *)
(* symbols at the same leaves; record i is the internal node numbered i    *)
(* and the root is the last record.                                        *)
C4_Theorem ==
    (pc = "general" /\ Len(freq_dict) >= 2)
        => /\ NodeEq(rebuilt, tree)
           /\ tree[4] = Len(bytes_to_nodes(buf)) - 1
           /\ \A m \in Internals(tree) :
                 /\ m[4] >= 0 /\ m[4] < Len(bytes_to_nodes(buf))
                 /\ bytes_to_nodes(buf)[m[4] + 1] = RecordOf(m)

C4_Witness ==
    /\ pc = "general"
    /\ Len(buf) >= 12
    /\ ~is_leaf(tree[2]) /\ ~is_leaf(tree[3])
    /\ NodeEq(rebuilt, tree)

(* C5: rebuilding with the first-in-first-out queue from the serialized    *)
(* records of a numbered tree of two or more symbols gives a tree          *)
(* structurally identical to it.                                           *)
C5_Claim ==
    (pc = "done" /\ Len(freq_dict) >= 2) => NodeEq(rebuilt_po, tree)

(* C10: for one distinct symbol s huffman_tree returns a root with the     *)
(* leaf s on the left and no right child, and get_codes, number_nodes and  *)
(* tree_to_bytes accept it: the codes are {s: "0"}, the root is numbered 0 *)
(* and one record is written.                                              *)
C10_Claim ==
    Len(freq_dict) = 1
        => /\ err = NoErr
           /\ pc \in {"built", "coded", "numbered", "serialized"}
                 => /\ tree[1] = NoSym
                    /\ NodeEq(tree[2], Leaf(freq_dict[1][1]))
                    /\ IsNone(tree[3])
           /\ pc \in {"coded", "numbered", "serialized"}
                 => codes = DictPut(EmptyDict, freq_dict[1][1], <<0>>)
           /\ pc \in {"numbered", "serialized"} => tree[4] = 0
           /\ pc = "serialized" => Len(buf) = 4

----------------------------------------------------------------------------
(* generate_compressed, one iteration of its for loop at a time, on a      *)
(* text and a code table given directly.                                   *)

MaxCodeLen == 9
MaxText == 3

(* Codes of 1 .. MaxCodeLen alternating bits, starting with 0 or with 1 *)
CodeSet ==
    {[k \in 1..n |-> (k + p) % 2] : n \in 1..MaxCodeLen, p \in 0..1}

Texts(alphabet, lo, hi) == UNION {[1..n -> alphabet] : n \in lo..hi}

InitPack ==
    /\ codes \in [{0, 1} -> CodeSet]
    /\ text \in Texts({0, 1}, 0, MaxText)
    /\ pc = "pack"
    /\ err = NoErr
    /\ freq_dict = <<>>
    /\ freq = <<>>
    /\ tree = None
    /\ buf = <<>>
    /\ rebuilt = None
    /\ rebuilt_po = None
    /\ y = <<>>
    /\ byte = <<>>
    /\ pos = 0
    /\ packed = <<>>
    /\ decoded = <<>>
    /\ container = <<>>
    /\ intact = TRUE

(* The body of the for loop for the symbol text[pos] (0-based) *)
PackSymbol ==
    /\ pc = "pack"
    /\ pos < Len(text)
    /\ IF text[pos + 1] \notin DOMAIN codes
       THEN /\ Raise("KeyError")
            /\ UNCHANGED <<y, byte, pos>>
       ELSE /\ IF Len(byte) + Len(codes[text[pos + 1]]) > 8
               THEN /\ y' = Append(y, bits_to_byte(
                                Slice(byte \o codes[text[pos + 1]], 0, 8)))
                    /\ byte' = Slice(byte \o codes[text[pos + 1]], 8,
                                     Len(byte) + Len(codes[text[pos + 1]]))
               ELSE /\ y' = y
                    /\ byte' = byte \o codes[text[pos + 1]]
            /\ pos' = pos + 1
            /\ UNCHANGED <<pc, err>>
    /\ UNCHANGED <<treeVars, text, packed, decoded, fileVars>>

(* y.append(bits_to_byte(byte)) after the loop, and the return *)
PackFlush ==
    /\ pc = "pack"
    /\ pos = Len(text)
    /\ IF bits_to_byte_raises(byte)
       THEN /\ Raise("ValueError")
            /\ UNCHANGED <<y, packed>>
       ELSE /\ y' = Append(y, bits_to_byte(byte))
            /\ packed' = y'
            /\ pc' = "packed"
            /\ err' = err
    /\ UNCHANGED <<treeVars, text, byte, pos, decoded, fileVars>>

NextPack ==
    \/ PackSymbol
    \/ PackFlush

SpecPack == InitPack /\ [][NextPack]_vars

(* The codes of the first n bytes of t, concatenated in input order *)
RECURSIVE CodeBits(_, _, _)
CodeBits(t, cs, n) ==
    IF n = 0 THEN <<>> ELSE CodeBits(t, cs, n - 1) \o cs[t[n]]

(* bits cut into 8-bit groups MSB-first, the last one zero-padded *)
Packed8(bits) ==
    [k \in 1..((Len(bits) + 7) \div 8) |->
        SumTo([j \in 1..8 |->
                 IF 8 * (k - 1) + j <= Len(bits)
                 THEN bits[8 * (k - 1) + j] * Pow2(8 - j) ELSE 0], 8)]

(* C6: for a non-empty text and codes of any length generate_compressed    *)
(* never fails, never leaves more than 8 bits in its buffer after a        *)
(* symbol, and returns the concatenated codes in 8-bit groups MSB-first,   *)
(* the last group zero-padded: ceil(total bits / 8) bytes.                 *)
C6_Claim ==
    (Len(text) >= 1 /\ pc \in {"pack", "packed", "error"})
        => /\ pc # "error"
           /\ Len(byte) <= 8
           /\ pc = "packed" => packed = Packed8(CodeBits(text, codes, Len(text)))

----------------------------------------------------------------------------
(* Packing a text with the codes of a tree built by huffman_tree, then     *)
(* generate_uncompressed on the result.                                    *)

MaxCodecSyms == 3
MaxCodecText == 5

(* Weights 1, 1, 2, 3, 5, 8, 13, 21, 34, 55 on the symbols 0 .. 9 *)
FibDict ==
    <<(<<0, 1>>), (<<1, 1>>), (<<2, 2>>), (<<3, 3>>), (<<4, 5>>), (<<5, 8>>),
      (<<6, 13>>), (<<7, 21>>), (<<8, 34>>), (<<9, 55>>)>>

(* The first MaxCodecSyms symbols of a frequency table *)
FirstSymbols(fd) == {fd[k][1] : k \in 1..Min(Len(fd), MaxCodecSyms)}

InitCodec ==
    /\ freq_dict \in FreqDicts(2, MaxCodecSyms) \cup {FibDict}
    /\ text \in Texts(FirstSymbols(freq_dict), 0, MaxCodecText)
    /\ pc = "build"
    /\ err = NoErr
    /\ freq = <<>>
    /\ tree = None
    /\ codes = EmptyDict
    /\ buf = <<>>
    /\ rebuilt = None
    /\ rebuilt_po = None
    /\ y = <<>>
    /\ byte = <<>>
    /\ pos = 0
    /\ packed = <<>>
    /\ decoded = <<>>
    /\ container = <<>>
    /\ intact = TRUE

(* tree = huffman_tree(freq); codes = get_codes(tree) *)
CodecBuild ==
    /\ pc = "build"
    /\ IF huffman_tree_raises(freq_dict)
       THEN /\ Raise("IndexError")
            /\ UNCHANGED <<tree, codes>>
       ELSE IF get_codes_raises(huffman_tree(freq_dict))
            THEN /\ Raise("AttributeError")
                 /\ UNCHANGED <<tree, codes>>
            ELSE /\ tree' = huffman_tree(freq_dict)
                 /\ codes' = get_codes(tree')
                 /\ pc' = "pack"
                 /\ err' = err
    /\ UNCHANGED <<freq_dict, freq, buf, rebuilt, rebuilt_po>>
    /\ UNCHANGED <<packVars, fileVars>>

(* generate_uncompressed(tree, packed, len(text)) *)
Unpack ==
    /\ pc = "packed"
    /\ IF generate_uncompressed_raises(tree)
       THEN /\ Raise("AttributeError")
            /\ decoded' = decoded
       ELSE /\ decoded' = generate_uncompressed(tree, packed, Len(text))
            /\ pc' = "unpacked"
            /\ err' = err
    /\ UNCHANGED <<treeVars, text, y, byte, pos, packed, fileVars>>

NextCodec ==
    \/ CodecBuild
    \/ PackSymbol
    \/ PackFlush
    \/ Unpack

SpecCodec == InitCodec /\ [][NextCodec]_vars

(* C7: for a tree of two or more symbols and any text over its symbols,    *)
(* packing the text with the tree's codes and decoding len(text) symbols   *)
(* from the result gives the text back, with no error on the way.          *)
C7_Claim ==
    /\ pc # "error"
    /\ pc = "unpacked" => decoded = text

----------------------------------------------------------------------------
(* compress on a byte buffer, then uncompress on the container, which may  *)
(* have lost the end of its bitstream or had its size field raised on the  *)
(* way.                                                                    *)

MaxAlpha == 3
MaxLen == 4

InitFile ==
    /\ text \in Texts(0..(MaxAlpha - 1), 0, MaxLen)
    /\ pc = "input"
    /\ err = NoErr
    /\ freq_dict = <<>>
    /\ freq = <<>>
    /\ tree = None
    /\ codes = EmptyDict
    /\ buf = <<>>
    /\ rebuilt = None
    /\ rebuilt_po = None
    /\ y = <<>>
    /\ byte = <<>>
    /\ pos = 0
    /\ packed = <<>>
    /\ decoded = <<>>
    /\ container = <<>>
    /\ intact = TRUE

Compress ==
    /\ pc = "input"
    /\ IF compress_err(text) # NoErr
       THEN /\ Raise(compress_err(text))
            /\ container' = container
       ELSE /\ container' = compress(text)
            /\ pc' = "compressed"
            /\ err' = err
    /\ UNCHANGED <<treeVars, packVars, intact>>

(* Offset of the size field in a container *)
SizeAt(c) == 1 + 4 * c[1]

(* The last byte of the bitstream is lost *)
Truncate ==
    /\ pc = "compressed"
    /\ intact
    /\ Len(container) > SizeAt(container) + 4
    /\ container' = SubSeq(container, 1, Len(container) - 1)
    /\ intact' = FALSE
    /\ UNCHANGED <<pc, err, treeVars, packVars>>

(* The size field declares one symbol more than were packed *)
Inflate ==
    /\ pc = "compressed"
    /\ intact
    /\ container[SizeAt(container) + 1] < 255
    /\ container' = [container EXCEPT ![SizeAt(container) + 1] = @ + 1]
    /\ intact' = FALSE
    /\ UNCHANGED <<pc, err, treeVars, packVars>>

Uncompress ==
    /\ pc = "compressed"
    /\ IF uncompress_err(container) # NoErr
       THEN /\ Raise(uncompress_err(container))
            /\ decoded' = decoded
       ELSE /\ decoded' = uncompress(container)
            /\ pc' = "uncompressed"
            /\ err' = err
    /\ UNCHANGED <<treeVars, text, y, byte, pos, packed, fileVars>>

NextFile ==
    \/ Compress
    \/ Truncate
    \/ Inflate
    \/ Uncompress

SpecFile == InitFile /\ [][NextFile]_vars

(* C1: compress on any buffer, the empty one and one of a single repeated  *)
(* byte included, followed by uncompress on the container it wrote, ends   *)
(* without error and gives the buffer back.                                *)
C1_Claim ==
    intact => /\ pc # "error"
              /\ pc = "uncompressed" => decoded = text

(* C8: compress on the empty buffer does not fail and writes the empty     *)
(* container: no internal node, size 0, no bitstream.                      *)
C8_Claim ==
    Len(text) = 0
        => /\ pc # "error"
           /\ pc = "compressed" => container = <<0, 0, 0, 0, 0>>

(* The size a container declares *)
DeclaredSize(c) == bytes_to_size(Slice(c, SizeAt(c), SizeAt(c) + 4))

(* C9: uncompress never ends normally with fewer symbols than the          *)
(* container declares; a bitstream that runs out first is an error.        *)
C9_Claim ==
    pc = "uncompressed" => Len(decoded) = DeclaredSize(container)

====
